---- MODULE Spec2Model ----
(***************************************************************************)
(* A model of meson-ext-rs, src/src/config.rs: the Config object that      *)
(* locates the meson executable from the process environment, asks it for  *)
(* its version, holds the build parameters and drives the three tool       *)
(* subprocesses (setup, build, install).                                   *)
(*                                                                         *)
(* Text that the code inspects character by character (the target triple,  *)
(* the names of environment variables, the bytes the tool prints) is a     *)
(* sequence of one-character strings.  Text that the code only copies and  *)
(* concatenates (paths, option keys and values, arguments) is a string.    *)
(* An Option<T> is a sequence of length at most one.                       *)
(***************************************************************************)
EXTENDS Integers, Sequences, FiniteSets, TLC

VARIABLES
    env,        \* the process environment: variable name -> Option value
    banner,     \* the bytes the installed tool prints for --version
    dirs,       \* the directories that exist
    files,      \* the files that exist
    cfg,        \* Option<Config>: the configuration the caller holds
    self,       \* Option<Config>: the configuration moved into build
    optCalls,   \* the set_option calls made on cfg, in order (history)
    pc,         \* where the caller is
    src,        \* the source_dir argument of the build in progress
    out,        \* Option: the output directory build resolved at its start
    trace,      \* the subprocesses spawned by the operation in progress
    diag,       \* the diagnostics printed by the operation in progress
    result,     \* the outcome of the last operation that returned
    start,      \* Option: the file system as it was when build was called
    last,       \* Option: a summary of the last build that has ended
    prev,       \* Option: that summary as it was when build was called
    queries,    \* number of --version subprocesses spawned for cfg
    callsLeft   \* setter, set_var and build calls the caller may still make

vars == << env, banner, dirs, files, cfg, self, optCalls, pc, src, out, trace,
           diag, result, start, last, prev, queries, callsLeft >>

-----------------------------------------------------------------------------
(* Option<T> *)

None == << >>

Some(x) == << x >>

IsSome(o) == Len(o) = 1

Unwrap(o) == o[1]

-----------------------------------------------------------------------------
(* Characters *)

LowerCase == << "a", "b", "c", "d", "e", "f", "g", "h", "i", "j", "k", "l", "m",
                "n", "o", "p", "q", "r", "s", "t", "u", "v", "w", "x", "y", "z" >>

UpperCase == << "A", "B", "C", "D", "E", "F", "G", "H", "I", "J", "K", "L", "M",
                "N", "O", "P", "Q", "R", "S", "T", "U", "V", "W", "X", "Y", "Z" >>

Digits == << "0", "1", "2", "3", "4", "5", "6", "7", "8", "9" >>

Range(s) == { s[i] : i \in DOMAIN s }

\* The first position of c in s, or 0.
IndexOf(s, c) ==
    IF c \in Range(s) THEN CHOOSE i \in DOMAIN s : s[i] = c /\ \A j \in DOMAIN s : j < i => s[j] # c
    ELSE 0

\* A byte that is not part of any UTF-8 encoding.
BadByte == "<FF>"

\* A value (of TARGET, of PROFILE) that is Unicode text.
IsUnicode(v) == BadByte \notin Range(v)

WhiteSpace == { " ", "\n", "\t", "\r" }

-----------------------------------------------------------------------------
(* str::to_uppercase and str::replace, as find_meson_target_specific_env   *)
(* uses them.                                                              *)

ToUpperChar(c) ==
    IF c \in Range(LowerCase) THEN UpperCase[IndexOf(LowerCase, c)] ELSE c

to_uppercase(s) == [ i \in DOMAIN s |-> ToUpperChar(s[i]) ]

\* replace("-", "_")
replace_dash(s) == [ i \in DOMAIN s |-> IF s[i] = "-" THEN "_" ELSE s[i] ]

-----------------------------------------------------------------------------
(* The process environment *)

NameTARGET == << "T", "A", "R", "G", "E", "T" >>

NameMESON == << "M", "E", "S", "O", "N" >>

NameOUT_DIR == << "O", "U", "T", "_", "D", "I", "R" >>

NamePROFILE == << "P", "R", "O", "F", "I", "L", "E" >>

\* env::var_os(name)
var_os(name) == IF name \in DOMAIN env THEN env[name] ELSE None

\* env::var(name).ok(): a value that is not Unicode is an error
var_ok(name) ==
    IF IsSome(var_os(name)) /\ IsUnicode(Unwrap(var_os(name))) THEN var_os(name) ELSE None

\* format!("MESON_{target_upper_case}")
TargetSpecificName(target) ==
    NameMESON \o << "_" >> \o replace_dash(to_uppercase(target))

find_meson_target_specific_env_keepDash ==
    IF IsSome(var_ok(NameTARGET))
    THEN var_os(NameMESON \o << "_" >> \o to_uppercase(Unwrap(var_ok(NameTARGET))))
    ELSE None

find_meson_target_specific_env ==
    IF IsSome(var_ok(NameTARGET))
    THEN var_os(TargetSpecificName(Unwrap(var_ok(NameTARGET))))
    ELSE None

find_meson_in_system_genericFirst ==
    IF IsSome(var_os(NameMESON)) THEN Unwrap(var_os(NameMESON))
    ELSE IF IsSome(find_meson_target_specific_env) THEN Unwrap(find_meson_target_specific_env)
    ELSE "meson"

find_meson_in_system ==
    IF IsSome(find_meson_target_specific_env) THEN Unwrap(find_meson_target_specific_env)
    ELSE IF IsSome(var_os(NameMESON)) THEN Unwrap(var_os(NameMESON))
    ELSE "meson"

-----------------------------------------------------------------------------
(* Results and errors.  The variants that config.rs names are taken from   *)
(* it; the variants that the ? operator converts into (from io::Error,     *)
(* Utf8Error and semver::Error) are declared in the crate root.            *)

Unit == "()"

Ok(v) == [ kind |-> "Ok", code |-> None, val |-> Some(v) ]

Err(k, c) == [ kind |-> k, code |-> c, val |-> None ]

Pending == [ kind |-> "pending", code |-> None, val |-> None ]

Panicked(msg) == [ kind |-> "panic", code |-> None, val |-> Some(msg) ]

IsErr(r) == r.kind \notin { "Ok", "pending", "panic" }

FromIoError == Err("ProcessLaunchError", None)

FromUtf8Error == Err("InvalidUtf8", None)

FromSemverError == Err("VersionParseError", None)

-----------------------------------------------------------------------------
(* An exit status: launched is FALSE when the process could not be         *)
(* spawned; code is ExitStatus::code(), None when a signal ended it.       *)

Status(l, c) == [ launched |-> l, code |-> c ]

LaunchFailed == Status(FALSE, None)

Signaled == Status(TRUE, None)

Exited(c) == Status(TRUE, Some(c))

\* ExitStatus::success()
success(st) == st.launched /\ st.code = Some(0)

-----------------------------------------------------------------------------
(* core::str::from_utf8, str::trim and semver::Version::parse              *)

from_utf8_ok(bytes) == BadByte \notin Range(bytes)

RECURSIVE trim_start(_)
trim_start(s) ==
    IF s # << >> /\ Head(s) \in WhiteSpace THEN trim_start(Tail(s)) ELSE s

RECURSIVE trim_end(_)
trim_end(s) ==
    IF s # << >> /\ s[Len(s)] \in WhiteSpace THEN trim_end(SubSeq(s, 1, Len(s) - 1)) ELSE s

trim(s) == trim_end(trim_start(s))

Before(s, c) == IF c \in Range(s) THEN SubSeq(s, 1, IndexOf(s, c) - 1) ELSE s

After(s, c) == IF c \in Range(s) THEN SubSeq(s, IndexOf(s, c) + 1, Len(s)) ELSE << >>

\* The segments of s between the occurrences of c.
RECURSIVE Split(_, _)
Split(s, c) ==
    IF c \in Range(s) THEN << Before(s, c) >> \o Split(After(s, c), c) ELSE << s >>

IsNumeric(s) == s # << >> /\ Range(s) \subseteq Range(Digits)

\* A numeric identifier: digits, no leading zero.
IsNumber(s) == IsNumeric(s) /\ (Len(s) = 1 \/ s[1] # "0")

RECURSIVE NumberValue(_)
NumberValue(s) ==
    IF s = << >> THEN 0
    ELSE 10 * NumberValue(SubSeq(s, 1, Len(s) - 1)) + (IndexOf(Digits, s[Len(s)]) - 1)

IdentChars == Range(Digits) \cup Range(LowerCase) \cup Range(UpperCase) \cup { "-" }

\* A dot-separated list of non-empty identifiers; numeric ones carry no
\* leading zero when strict (the pre-release part).
IsIdentList(s, strict) ==
    \A i \in DOMAIN Split(s, ".") :
        LET id == Split(s, ".")[i]
        IN  /\ id # << >>
            /\ Range(id) \subseteq IdentChars
            /\ (strict /\ IsNumeric(id)) => IsNumber(id)

VersionParse(text) ==
    LET hasBuild == "+" \in Range(text)
        noBuild  == Before(text, "+")
        build    == After(text, "+")
        hasPre   == "-" \in Range(noBuild)
        core     == Split(Before(noBuild, "-"), ".")
        pre      == After(noBuild, "-")
    IN  IF /\ Len(core) = 3
           /\ \A i \in DOMAIN core : IsNumber(core[i])
           /\ hasPre => IsIdentList(pre, TRUE)
           /\ hasBuild => IsIdentList(build, FALSE)
        THEN Some([ major |-> NumberValue(core[1]), minor |-> NumberValue(core[2]),
                    patch |-> NumberValue(core[3]), pre |-> pre, build |-> build ])
        ELSE None

-----------------------------------------------------------------------------
(* Config::get_version_of_meson: st and stdout are what the subprocess     *)
(* `meson_path --version` ended with and printed.                          *)

get_version_of_meson_outputFirst(st, stdout) ==
    IF ~st.launched THEN FromIoError
    ELSE IF ~from_utf8_ok(stdout) THEN FromUtf8Error
    ELSE IF VersionParse(trim(stdout)) = None THEN FromSemverError
    ELSE IF ~success(st)
         THEN IF IsSome(st.code) THEN Err("MesonExitedUnsuccessfully", st.code)
              ELSE Err("MesonExitedBySignal", None)
    ELSE Ok(Unwrap(VersionParse(trim(stdout))))

get_version_of_meson(st, stdout) ==
    IF ~st.launched THEN FromIoError
    ELSE IF ~success(st)
         THEN IF IsSome(st.code) THEN Err("MesonExitedUnsuccessfully", st.code)
              ELSE Err("MesonExitedBySignal", None)
    ELSE IF ~from_utf8_ok(stdout) THEN FromUtf8Error
    ELSE IF VersionParse(trim(stdout)) = None THEN FromSemverError
    ELSE Ok(Unwrap(VersionParse(trim(stdout))))

-----------------------------------------------------------------------------
(* The Config object and its setters *)

NewConfig(meson, version) ==
    [ meson_path |-> meson, meson_version |-> version,
      native_file |-> None, cross_file |-> None, out_path |-> None,
      options |-> [ k \in {} |-> "" ], profile |-> None ]

set_native_file(c, file) == [ c EXCEPT !.native_file = Some(file) ]

set_cross_file(c, file) == [ c EXCEPT !.cross_file = Some(file) ]

set_out_path(c, path) == [ c EXCEPT !.out_path = Some(path) ]


\* (variant) a key that is present keeps its value
set_option_keepFirst(c, key, value) ==
    IF key \in DOMAIN c.options THEN c
    ELSE [ c EXCEPT !.options = [ k \in DOMAIN c.options \cup { key } |->
                                    IF k = key THEN value ELSE c.options[k] ] ]

\* HashMap::insert
set_option(c, key, value) ==
    [ c EXCEPT !.options = [ k \in DOMAIN c.options \cup { key } |->
                               IF k = key THEN value ELSE c.options[k] ] ]

set_profile(c, profile) == [ c EXCEPT !.profile = Some(profile) ]

-----------------------------------------------------------------------------
(* Paths and the file system *)

\* Path::join of a relative component
Join(path, name) == path \o "/" \o name


\* (variant) the current directory stands in for a missing OUT_DIR
out_path_defaulting(c) ==
    IF IsSome(c.out_path) THEN c.out_path
    ELSE IF IsSome(var_os(NameOUT_DIR)) THEN var_os(NameOUT_DIR)
    ELSE Some(".")

\* Config::out_path: None stands for the panic of expect()
out_path(c) == IF IsSome(c.out_path) THEN c.out_path ELSE var_os(NameOUT_DIR)

build_dir(o) == Join(o, "build")

install_dir(o) == Join(o, "install")

Sentinel(o) == Join(build_dir(o), "build.ninja")


\* (variant) the sentinel is looked for in the output directory itself
is_configured_inOut(o) == Join(o, "build.ninja") \in files

\* (variant) an existing build directory counts as configured
is_configured_buildDirExists(o) == build_dir(o) \in dirs

\* (variant) configure never takes the early return
is_configured_never(o) == FALSE

is_configured(o) == Sentinel(o) \in files

\* (variant) not recursive: a directory whose parent is missing is not made
CreateDirAll_parentMustExist(ds, o, name) ==
    IF o \in ds THEN ds \cup { Join(o, name) } ELSE ds

\* The directories after create_dir_all(Join(o, name)) has succeeded.
CreateDirAll(ds, o, name) == ds \cup { o, Join(o, name) }

-----------------------------------------------------------------------------
(* Config::profile: value is None where unwrap() panics; warn tells        *)
(* whether the cargo:warning line is printed.                              *)

ProfileDebug == << "d", "e", "b", "u", "g" >>

ProfileRelease == << "r", "e", "l", "e", "a", "s", "e" >>

profile(c) ==
    IF IsSome(c.profile) THEN [ value |-> c.profile, warn |-> FALSE ]
    ELSE IF var_ok(NamePROFILE) = None THEN [ value |-> None, warn |-> FALSE ]
    ELSE IF Unwrap(var_ok(NamePROFILE)) = ProfileDebug
         THEN [ value |-> Some("debug"), warn |-> FALSE ]
    ELSE IF Unwrap(var_ok(NamePROFILE)) = ProfileRelease
         THEN [ value |-> Some("release"), warn |-> FALSE ]
    ELSE [ value |-> Some("release"), warn |-> TRUE ]

InfoEmptyProfile == "cargo:info=profile is empty, ignoring profile option."

\* The warning names the value of PROFILE it found.
WarnUnknownProfile(value) ==
    << "cargo:warning=PROFILE is unknown. Using release as default.", value >>

-----------------------------------------------------------------------------
(* The argument lists *)

\* format!("-D{}={}", key, value)
OptionFlag(key, value) == "-D" \o key \o "=" \o value

\* The orders in which a HashMap with these keys may be iterated.
IterationOrders(keys) ==
    { o \in [ 1 .. Cardinality(keys) -> keys ] : Range(o) = keys }

\* (variant) the cross file is passed before the native file
SetupArgs_crossFirst(c, prof, order, source_dir, o) ==
    << "setup" >>
    \o (IF prof # "" THEN << "--buildtype", prof >> ELSE << >>)
    \o [ i \in DOMAIN order |-> OptionFlag(order[i], c.options[order[i]]) ]
    \o (IF IsSome(c.cross_file) THEN << "--cross-file", Unwrap(c.cross_file) >> ELSE << >>)
    \o (IF IsSome(c.native_file) THEN << "--native-file", Unwrap(c.native_file) >> ELSE << >>)
    \o << "--prefix", install_dir(o) >>
    \o << source_dir >>

\* The arguments of the setup subprocess (configure, lines 108-141); prof is
\* the resolved profile, order the iteration order of the options.
SetupArgs(c, prof, order, source_dir, o) ==
    << "setup" >>
    \o (IF prof # "" THEN << "--buildtype", prof >> ELSE << >>)
    \o [ i \in DOMAIN order |-> OptionFlag(order[i], c.options[order[i]]) ]
    \o (IF IsSome(c.native_file) THEN << "--native-file", Unwrap(c.native_file) >> ELSE << >>)
    \o (IF IsSome(c.cross_file) THEN << "--cross-file", Unwrap(c.cross_file) >> ELSE << >>)
    \o << "--prefix", install_dir(o) >>
    \o << source_dir >>

BuildArgs(o) == << "build", "-C", build_dir(o) >>

\* (variant) the install step asks the tool for its version instead
InstallArgs_versionQuery(o) == << "--version" >>

InstallArgs(o) == << "install", "-C", build_dir(o) >>

Spawned(cmd, exe, args, cwd, st) ==
    [ cmd |-> cmd, exe |-> exe, args |-> args, cwd |-> cwd, status |-> st ]


\* (variant) a failed run is always reported with the step's variant
StatusError_noSignalCase(variant, st) ==
    IF ~st.launched THEN FromIoError ELSE Err(variant, st.code)

\* The error a failed tool run is turned into (lines 147-153, 175-181, 189-195).
StatusError(variant, st) ==
    IF ~st.launched THEN FromIoError
    ELSE IF IsSome(st.code) THEN Err(variant, st.code)
    ELSE Err("MesonExitedBySignal", None)

-----------------------------------------------------------------------------
(* The inputs the caller and the surroundings choose from *)

ExitCodes == { 0, 3 }

Statuses == { LaunchFailed, Signaled } \cup { Exited(c) : c \in ExitCodes }

SourceDirs == { "/src" }

NativeFiles == { "native.ini" }

CrossFiles == { "cross.ini" }

OutPaths == { "/x" }

OptionKeys == { "a", "b" }

OptionValues == { "1", "two" }

Profiles == { "", "minsize" }

\* What MESON may be changed to after a Config has been constructed.
LateMesons == { "/late/meson" }

-----------------------------------------------------------------------------
(* Operations.  An operation starts when the caller is idle; trace and     *)
(* diag are those of the operation in progress or last ended.              *)

\* find_system_meson (lines 35-50): one --version subprocess, whose status
\* st is chosen by the surroundings and whose output is the banner.
FindSystemMeson ==
    /\ pc = "idle"
    /\ cfg = None
    /\ \E st \in Statuses :
         LET meson   == find_meson_in_system
             version == get_version_of_meson(st, banner)
         IN  /\ trace' = << Spawned("--version", meson, << "--version" >>, None, st) >>
             /\ cfg' = IF version.kind = "Ok" THEN Some(NewConfig(meson, Unwrap(version.val)))
                       ELSE None
             /\ result' = IF version.kind = "Ok" THEN Ok(Unit) ELSE version
             /\ queries' = 1
    /\ self' = None
    /\ optCalls' = << >>
    /\ diag' = << >>
    /\ src' = None
    /\ out' = None
    /\ start' = None
    /\ UNCHANGED << env, banner, dirs, files, pc, last, prev, callsLeft >>

\* What every setter leaves alone.
SetterFrame ==
    /\ pc = "idle"
    /\ IsSome(cfg)
    /\ callsLeft > 0
    /\ callsLeft' = callsLeft - 1
    /\ trace' = << >>
    /\ diag' = << >>
    /\ result' = Ok(Unit)
    /\ UNCHANGED << env, banner, dirs, files, self, pc, src, out, start, last, prev, queries >>

SetNativeFile ==
    /\ SetterFrame
    /\ \E file \in NativeFiles : cfg' = Some(set_native_file(Unwrap(cfg), file))
    /\ UNCHANGED optCalls

SetCrossFile ==
    /\ SetterFrame
    /\ \E file \in CrossFiles : cfg' = Some(set_cross_file(Unwrap(cfg), file))
    /\ UNCHANGED optCalls

SetOutPath ==
    /\ SetterFrame
    /\ \E path \in OutPaths : cfg' = Some(set_out_path(Unwrap(cfg), path))
    /\ UNCHANGED optCalls

SetOption ==
    /\ SetterFrame
    /\ \E key \in OptionKeys, value \in OptionValues :
         /\ cfg' = Some(set_option(Unwrap(cfg), key, value))
         /\ optCalls' = Append(optCalls, << key, value >>)

SetProfile ==
    /\ SetterFrame
    /\ \E p \in Profiles : cfg' = Some(set_profile(Unwrap(cfg), p))
    /\ UNCHANGED optCalls

\* The caller, holding a Config, changes the MESON variable that
\* find_meson_in_system read (line 233) when the Config was constructed.
SetEnvMeson ==
    /\ pc = "idle"
    /\ IsSome(cfg)
    /\ callsLeft > 0
    /\ callsLeft' = callsLeft - 1
    /\ \E v \in LateMesons :
         /\ env[NameMESON] # Some(v)
         /\ env' = [ env EXCEPT ![NameMESON] = Some(v) ]
    /\ trace' = << >>
    /\ diag' = << >>
    /\ result' = Ok(Unit)
    /\ UNCHANGED << banner, dirs, files, cfg, self, optCalls, pc, src, out, start, last, prev,
                    queries >>

\* The build in progress ends with r; a summary of the run is kept.
Return(r, tr, fl) ==
    /\ pc' = "idle"
    /\ result' = r
    /\ UNCHANGED optCalls
    /\ last' = Some([ out |-> Unwrap(out),
                      setup |-> \E i \in DOMAIN tr : tr[i].cmd = "setup",
                      sentinel |-> Sentinel(Unwrap(out)) \in fl,
                      ok |-> r.kind = "Ok" ])

\* The build in progress panics: the process unwinds.
Panic(msg) ==
    /\ pc' = "panicked"
    /\ result' = Panicked(msg)
    /\ UNCHANGED << optCalls, last >>

PanicOutDir == "OUT_DIR is not set. Are you running outside of build.rs?"

PanicProfile == "called Result::unwrap() on an Err value: NotPresent"

PanicProfileNotUnicode == "called Result::unwrap() on an Err value: NotUnicode"

\* (variant) build borrows the Config: the caller keeps it
CallerAfterBuild_borrowed(c) == c

\* build takes self by value (line 159): what the caller is left holding.
CallerAfterBuild(c) == None

\* build is called (line 159), which moves the Config out of the caller's
\* hands, and enters configure (lines 100-103): the output directory is
\* resolved and the sentinel file looked for.
BuildBegin ==
    /\ pc = "idle"
    /\ IsSome(cfg)
    /\ callsLeft > 0
    /\ callsLeft' = callsLeft - 1
    /\ \E source_dir \in SourceDirs : src' = Some(source_dir)
    /\ trace' = << >>
    /\ diag' = << >>
    /\ start' = Some([ dirs |-> dirs, files |-> files ])
    /\ prev' = last
    /\ self' = cfg
    /\ cfg' = CallerAfterBuild(cfg)
    /\ LET o == out_path(Unwrap(cfg))
       IN  /\ out' = o
           /\ IF o = None
              THEN Panic(PanicOutDir)
              ELSE /\ pc' = IF is_configured(Unwrap(o)) THEN "mkdirs" ELSE "configure"
                   /\ result' = Pending
                   /\ UNCHANGED << optCalls, last >>
    /\ UNCHANGED << env, banner, dirs, files, queries >>

\* configure creates the build directory (lines 105-106).
ConfigureMkdir ==
    /\ pc = "configure"
    /\ \/ /\ dirs' = CreateDirAll(dirs, Unwrap(out), "build")
          /\ pc' = "setup"
          /\ UNCHANGED << optCalls, result, last >>
       \/ /\ build_dir(Unwrap(out)) \notin dirs
          /\ UNCHANGED dirs
          /\ Return(FromIoError, trace, files)
    /\ UNCHANGED << env, banner, cfg, self, files, src, out, trace, diag, start, prev, queries,
                    callsLeft >>

\* (variant) the executable is looked up again when a step is run
Executable_resolvedAgain(c) == find_meson_in_system

\* Command::new(self.meson_path.clone()) (lines 143, 169, 183)
Executable(c) == c.meson_path

\* The step-specific errors of the three steps (lines 150, 178, 192).
ConfigureError(st) == StatusError("MesonConfiguredUnsuccessfully", st)

BuildError(st) == StatusError("MesonBuildUnsuccessfully", st)

InstallError(st) == StatusError("MesonBuildUnsuccessfully", st)

\* Whether the run goes on after a step (lines 148, 176, 190).

\* (variant) build goes on whatever the setup subprocess ended with
ConfigureGoesOn_always(st) == TRUE

ConfigureGoesOn(st) == success(st)


\* (variant) the build step treats any status of a launched tool as success
BuildGoesOn_anyExit(st) == st.launched

BuildGoesOn(st) == success(st)

InstallGoesOn(st) == success(st)

\* configure resolves the profile, assembles the arguments and runs the
\* setup subprocess (lines 108-155).  The tool, not this code, is what may
\* write the sentinel file.
ConfigureSetup ==
    /\ pc = "setup"
    /\ LET c == Unwrap(self)
           p == profile(c)
       IN  IF p.value = None
           THEN /\ Panic(IF var_os(NamePROFILE) = None THEN PanicProfile
                                                            ELSE PanicProfileNotUnicode)
                /\ UNCHANGED << trace, diag, files >>
           ELSE \E order \in IterationOrders(DOMAIN c.options), st \in Statuses,
                   writes \in BOOLEAN :
                  /\ writes => st.launched
                  /\ diag' = diag
                        \o (IF p.warn THEN << WarnUnknownProfile(Unwrap(var_ok(NamePROFILE))) >>
                            ELSE << >>)
                        \o (IF Unwrap(p.value) = "" THEN << << InfoEmptyProfile >> >> ELSE << >>)
                  /\ trace' = Append(trace,
                        Spawned("setup", Executable(c),
                                SetupArgs(c, Unwrap(p.value), order, Unwrap(src), Unwrap(out)),
                                src, st))
                  /\ files' = IF writes THEN files \cup { Sentinel(Unwrap(out)) } ELSE files
                  /\ IF ConfigureGoesOn(st)
                     THEN /\ pc' = "mkdirs"
                          /\ UNCHANGED << optCalls, result, last >>
                     ELSE Return(ConfigureError(st), trace', files')
    /\ UNCHANGED << env, banner, cfg, self, dirs, src, out, start, prev, queries, callsLeft >>

\* build resolves the output directory again and creates the build and the
\* install directory (lines 162-167).
BuildMkdirs ==
    /\ pc = "mkdirs"
    /\ LET o == out_path(Unwrap(self))
       IN  IF o = None
           THEN /\ Panic(PanicOutDir)
                /\ UNCHANGED << dirs, out >>
           ELSE /\ out' = o
                /\ \/ /\ dirs' = CreateDirAll(CreateDirAll(dirs, Unwrap(o), "build"),
                                              Unwrap(o), "install")
                      /\ pc' = "compile"
                      /\ UNCHANGED << optCalls, result, last >>
                   \/ /\ build_dir(Unwrap(o)) \notin dirs
                      /\ UNCHANGED dirs
                      /\ Return(FromIoError, trace, files)
                   \/ /\ install_dir(Unwrap(o)) \notin dirs
                      /\ dirs' = CreateDirAll(dirs, Unwrap(o), "build")
                      /\ Return(FromIoError, trace, files)
    /\ UNCHANGED << env, banner, cfg, self, files, src, trace, diag, start, prev, queries, callsLeft >>

\* The build subprocess (lines 169-181).
BuildCompile ==
    /\ pc = "compile"
    /\ \E st \in Statuses :
         /\ trace' = Append(trace, Spawned("build", Executable(Unwrap(self)),
                                           BuildArgs(Unwrap(out)), src, st))
         /\ IF BuildGoesOn(st)
            THEN /\ pc' = "install"
                 /\ UNCHANGED << optCalls, result, last >>
            ELSE Return(BuildError(st), trace', files)
    /\ UNCHANGED << env, banner, cfg, self, dirs, files, src, out, diag, start, prev, queries,
                    callsLeft >>

\* The install subprocess (lines 183-197).
BuildInstall ==
    /\ pc = "install"
    /\ \E st \in Statuses :
         /\ trace' = Append(trace, Spawned("install", Executable(Unwrap(self)),
                                           InstallArgs(Unwrap(out)), src, st))
         /\ IF InstallGoesOn(st)
            THEN Return(Ok(Unit), trace', files)
            ELSE Return(InstallError(st), trace', files)
    /\ UNCHANGED << env, banner, cfg, self, dirs, files, src, out, diag, start, prev, queries,
                    callsLeft >>

Next ==
    \/ FindSystemMeson
    \/ SetNativeFile
    \/ SetCrossFile
    \/ SetOutPath
    \/ SetOption
    \/ SetProfile
    \/ SetEnvMeson
    \/ BuildBegin
    \/ ConfigureMkdir
    \/ ConfigureSetup
    \/ BuildMkdirs
    \/ BuildCompile
    \/ BuildInstall

-----------------------------------------------------------------------------
(* Initial states *)

\* The caller makes at most MaxCalls setter, set_var and build calls.
MaxCalls == 3

EnvOf(target, specific, meson, outDir, prof) ==
    [ n \in { NameTARGET, NameMESON, NameOUT_DIR, NamePROFILE } \cup DOMAIN specific |->
        IF n = NameTARGET THEN target
        ELSE IF n = NameMESON THEN meson
        ELSE IF n = NameOUT_DIR THEN outDir
        ELSE IF n = NamePROFILE THEN prof
        ELSE specific[n] ]

NoSpecific == [ n \in {} |-> None ]

EnvOutDirs == { "/e" }

AllOuts == OutPaths \cup EnvOutDirs

\* The file system before the first operation: nothing there, or an output
\* directory that an earlier run of the tool has configured.
FileSystems ==
    { [ dirs |-> {}, files |-> {} ] }
    \cup { [ dirs |-> { o, build_dir(o) }, files |-> { Sentinel(o) } ] : o \in AllOuts }

EnvProfiles == { None, Some(ProfileDebug), Some(ProfileRelease),
                 Some(<< "d", "e", "v" >>), Some(<< BadByte >>) }

GoodBanner == << "1", ".", "2", ".", "3", "\n" >>

Caller(e, b, fs, calls) ==
    /\ env = e
    /\ banner = b
    /\ dirs = fs.dirs
    /\ files = fs.files
    /\ cfg = None
    /\ self = None
    /\ optCalls = << >>
    /\ pc = "idle"
    /\ src = None
    /\ out = None
    /\ trace = << >>
    /\ diag = << >>
    /\ result = Pending
    /\ start = None
    /\ last = None
    /\ prev = None
    /\ queries = 0
    /\ callsLeft = calls

Init ==
    \E outDir \in { None } \cup { Some(o) : o \in EnvOutDirs },
       prof \in EnvProfiles, fs \in FileSystems :
        Caller(EnvOf(None, NoSpecific, None, outDir, prof), GoodBanner, fs, MaxCalls)

Spec == Init /\ [][Next]_vars

-----------------------------------------------------------------------------
(* Initial states that exercise the resolvers: the variables the executable *)
(* resolver reads and the banner the version resolver parses vary, the      *)
(* rest of the surroundings is fixed.                                       *)

\* The caller of these runs makes at most ResolveCalls setter and build calls.
ResolveCalls == 1

Targets ==
    { None, Some(<< BadByte >>),
      Some(<< "x", "8", "6", "_", "6", "4", "-", "u", "n", "k", "n", "o", "w", "n", "-", "l", "i", "n", "u", "x", "-", "g", "n", "u" >>),
      Some(<< "a", "-", "b" >>),
      Some(<< "A", "_", "B" >>),
      Some(<< >>) }

\* Names of per-target variables that may be set, matching a target or not.
SpecificNameList ==
    << << "M", "E", "S", "O", "N", "_", "X", "8", "6", "_", "6", "4", "_", "U", "N", "K", "N", "O", "W", "N", "_", "L", "I", "N", "U", "X", "_", "G", "N", "U" >>,
      << "M", "E", "S", "O", "N", "_", "A", "_", "B" >>,
      << "M", "E", "S", "O", "N", "_", "a", "-", "b" >>,
      << "M", "E", "S", "O", "N", "_", "x", "8", "6", "_", "6", "4", "-", "u", "n", "k", "n", "o", "w", "n", "-", "l", "i", "n", "u", "x", "-", "g", "n", "u" >>,
      << "M", "E", "S", "O", "N", "_" >> >>

SpecificNames == Range(SpecificNameList)

\* The value each of them is set to, when it is set.
SpecificValue(n) ==
    IF n = SpecificNameList[1] THEN "/cross/x86_64/meson"
    ELSE IF n = SpecificNameList[2] THEN "/cross/a_b/meson"
    ELSE IF n = SpecificNameList[3] THEN "/raw/a-b/meson"
    ELSE IF n = SpecificNameList[4] THEN "/raw/x86_64/meson"
    ELSE ""

Specifics ==
    { NoSpecific } \cup { [ n \in { m } |-> Some(SpecificValue(m)) ] : m \in SpecificNames }
    \cup { [ n \in SpecificNames |-> Some(SpecificValue(n)) ] }

Banners ==
    { << "1", ".", "2", ".", "3", "\n" >>,
      << " ", " ", "0", ".", "6", "0", ".", "1", " ", "\n" >>,
      << "1", ".", "2", ".", "3", "-", "r", "c", ".", "1", "+", "b", "u", "i", "l", "d", "-", "5" >>,
      << "n", "o", "t", "-", "a", "-", "v", "e", "r", "s", "i", "o", "n" >>,
      << >>,
      << "1", ".", "2" >>,
      << "0", "1", ".", "2", ".", "3" >>,
      << "1", ".", "2", ".", "3", "-" >>,
      << "1", ".", "2", ".", "3", " ", "4" >>,
      << "1", ".", "2", ".", "3", "\n", BadByte >>,
      << "v", "1", ".", "2", ".", "3" >>,
      << "1", ".", "2", ".", "3", ".", "4" >>,
      << "1", ".", "2", ".", "3", "+" >> }

InitResolve ==
    \/ \E target \in Targets, specific \in Specifics, meson \in { None, Some("/opt/meson") } :
         Caller(EnvOf(target, specific, meson, Some("/e"), Some(ProfileDebug)), GoodBanner,
                [ dirs |-> {}, files |-> {} ], ResolveCalls)
    \/ \E b \in Banners :
         Caller(EnvOf(None, NoSpecific, None, Some("/e"), Some(ProfileDebug)), b,
                [ dirs |-> {}, files |-> {} ], ResolveCalls)

SpecResolve == InitResolve /\ [][Next]_vars

-----------------------------------------------------------------------------
(* Properties of the build driver, checked under Spec *)

\* A build has been called and no later operation has begun.
InBuild == IsSome(self)

\* The build has returned to the caller.
Returned == InBuild /\ pc = "idle"

\* The subcommands of the subprocesses spawned so far, in spawn order.
Cmds == [ i \in DOMAIN trace |-> trace[i].cmd ]

SetupSpawned == \E i \in DOMAIN trace : trace[i].cmd = "setup"

\* The sentinel file <out>/build/build.ninja existed when build was called.
SentinelAtStart == (Unwrap(out) \o "/build/build.ninja") \in Unwrap(start).files

\* C1: in every run of build the tool subprocesses are spawned in the order
\* setup (unless skipped), build, install; a subprocess is followed by another
\* one only if it exited with status 0; and a subprocess that failed to
\* launch, exited non-zero or was killed by a signal is the last one of the
\* run, which has ended with an error.
C1_FixedOrderFirstFailureEnds ==
    InBuild =>
        /\ Cmds \in { << >>, << "setup" >>, << "setup", "build" >>,
                      << "setup", "build", "install" >>,
                      << "build" >>, << "build", "install" >> }
        /\ \A i \in DOMAIN trace :
             trace[i].status # Exited(0) =>
                /\ i = Len(trace)
                /\ pc = "idle"
                /\ IsErr(result)

\* A build step that exited non-zero after a successful setup: no install.
C1_Witness ==
    /\ Returned
    /\ Cmds = << "setup", "build" >>
    /\ trace[2].status = Exited(3)
    /\ IsErr(result)

\* The error each phase produces for a status, as the code names them.
PhaseError(cmd, st) ==
    IF cmd = "setup" THEN ConfigureError(st)
    ELSE IF cmd = "build" THEN BuildError(st)
    ELSE InstallError(st)

\* C2: a tool that exits with a non-zero code c in the configure, build or
\* install phase makes build return an error that carries c and that differs
\* from the error either other phase produces for the same code.
C2_ErrorIdentifiesPhase ==
    (Returned /\ trace # << >> /\ trace[Len(trace)].status \in { Exited(c) : c \in ExitCodes \ { 0 } }) =>
        LET final == trace[Len(trace)]
        IN  /\ result.code = final.status.code
            /\ \A other \in { "setup", "build", "install" } \ { final.cmd } :
                 result # PhaseError(other, final.status)

\* The condition of C3: this is the second of two builds against the same
\* output directory, the first one ran setup and succeeded (so every tool
\* subprocess of it exited with status 0), and every tool subprocess of the
\* second one has exited with status 0.
SecondCallAfterCleanFirst ==
    /\ InBuild
    /\ IsSome(out)
    /\ IsSome(prev)
    /\ Unwrap(prev).out = Unwrap(out)
    /\ Unwrap(prev).setup
    /\ Unwrap(prev).ok
    /\ \A i \in DOMAIN trace : trace[i].status = Exited(0)

\* C3 as stated: the second call finds the sentinel file and spawns no setup
\* subprocess, and it succeeds like the first.
C3_SecondCallSkipsConfigure ==
    SecondCallAfterCleanFirst =>
        /\ SentinelAtStart
        /\ ~SetupSpawned
        /\ Returned => result = Ok(Unit)

\* C3 amended: the second call skips configure exactly when the sentinel file
\* exists as it starts, which is so if and only if the tool created it during
\* the first call (this code never writes it); otherwise setup is spawned
\* again.  Either way both calls succeed.
C3_SecondCallSkipsIfToolWroteSentinel ==
    SecondCallAfterCleanFirst =>
        /\ SentinelAtStart <=> Unwrap(prev).sentinel
        /\ SentinelAtStart => ~SetupSpawned
        /\ (~SentinelAtStart /\ "build" \in Range(Cmds)) => Cmds[1] = "setup"
        /\ Returned => result = Ok(Unit)

\* Two successful calls, the second one without a setup subprocess.
C3_Witness ==
    /\ SecondCallAfterCleanFirst
    /\ Returned
    /\ Cmds = << "build", "install" >>
    /\ result = Ok(Unit)

\* C4: if the sentinel file exists when build is called, no setup subprocess
\* is spawned in that run and the run is at the build step (directories,
\* build subprocess) or beyond; if it does not exist, a build subprocess is
\* preceded by a setup subprocess.
C4_SentinelDecidesConfigure ==
    (InBuild /\ IsSome(out)) =>
        /\ SentinelAtStart =>
             /\ ~SetupSpawned
             /\ pc \in { "mkdirs", "compile", "install", "idle" }
             /\ pc = "idle" => (trace = << >> => result = FromIoError)
        /\ ~SentinelAtStart =>
             /\ pc \in { "compile", "install" } => SetupSpawned
             /\ "build" \in Range(Cmds) => Cmds[1] = "setup"

\* The sentinel was there, and the build subprocess ran with no setup.
C4_Witness ==
    /\ InBuild
    /\ IsSome(out)
    /\ SentinelAtStart
    /\ Cmds = << "build" >>

\* The setup subprocess of the build, when one was spawned.
SetupRun == trace[CHOOSE i \in DOMAIN trace : trace[i].cmd = "setup"]

\* C6: with no explicit profile and PROFILE absent, profile resolution does
\* not crash: it resolves to "release" and the setup subprocess is spawned.
C6_AbsentProfileDoesNotCrash ==
    (InBuild /\ Unwrap(self).profile = None /\ env[NamePROFILE] = None) =>
        /\ result # Panicked(PanicProfile)
        /\ pc \in { "mkdirs", "compile", "install" } => SetupSpawned \/ SentinelAtStart
        /\ SetupSpawned => SubSeq(SetupRun.args, 1, 3) = << "setup", "--buildtype", "release" >>

\* C7: a tool subprocess (version query, setup, build or install) that a
\* signal terminated is the last subprocess of its operation, and the
\* operation has returned MesonExitedBySignal, which carries no exit code.
C7_SignalEndsOperation ==
    \A i \in DOMAIN trace :
        (trace[i].status.launched /\ trace[i].status.code = None) =>
            /\ i = Len(trace)
            /\ pc = "idle"
            /\ result = [ kind |-> "MesonExitedBySignal", code |-> None, val |-> None ]
            /\ cfg = None

\* The install subprocess was killed by a signal after setup and build.
C7_Witness ==
    /\ Returned
    /\ Cmds = << "setup", "build", "install" >>
    /\ trace[3].status = Signaled
    /\ result.kind = "MesonExitedBySignal"

\* The keys that set_option was called with, and the value of the last call.
KeysSet == { optCalls[j][1] : j \in DOMAIN optCalls }

LastValueSet(k) ==
    optCalls[CHOOSE j \in DOMAIN optCalls :
                /\ optCalls[j][1] = k
                /\ \A m \in DOMAIN optCalls : optCalls[m][1] = k => m <= j][2]

\* Every text of the form -D<key>=<value>.
AnyOptionFlag == { "-D" \o k \o "=" \o v : k \in OptionKeys, v \in OptionValues }

\* C9: the setup invocation holds, for every key that set_option was called
\* with, exactly one argument -D<key>=<value of the last call for that key>,
\* and no other -D argument.
C9_OneFlagPerKeyLastWriteWins ==
    (InBuild /\ SetupSpawned) =>
        LET args == SetupRun.args
        IN  /\ \A k \in KeysSet :
                 Cardinality({ i \in DOMAIN args : args[i] = "-D" \o k \o "=" \o LastValueSet(k) }) = 1
            /\ Cardinality({ i \in DOMAIN args : args[i] \in AnyOptionFlag }) = Cardinality(KeysSet)

\* One key was set twice, to different values, and setup was spawned.
C9_Witness ==
    /\ InBuild
    /\ SetupSpawned
    /\ Len(optCalls) = 2
    /\ optCalls[1][1] = optCalls[2][1]
    /\ optCalls[1][2] # optCalls[2][2]

\* C10: the output directory is the explicitly set path if there is one,
\* whatever OUT_DIR is, and the value of OUT_DIR otherwise: it is where the
\* directories are made, what --prefix and -C point into; with neither, build
\* panics before a directory is created or a subprocess spawned.
C10_OutputDirectory ==
    InBuild =>
        LET c == Unwrap(self)
        IN  /\ (c.out_path = None /\ env[NameOUT_DIR] = None) =>
                 /\ pc = "panicked"
                 /\ result = Panicked(PanicOutDir)
                 /\ trace = << >>
                 /\ dirs = Unwrap(start).dirs
            /\ (c.out_path # None \/ env[NameOUT_DIR] # None) =>
                 LET o == IF c.out_path # None THEN c.out_path[1] ELSE env[NameOUT_DIR][1]
                 IN  /\ result # Panicked(PanicOutDir)
                     /\ dirs \ Unwrap(start).dirs \subseteq { o, o \o "/build", o \o "/install" }
                     /\ pc \in { "setup", "mkdirs" } => (o \o "/build") \in dirs
                     /\ pc \in { "compile", "install" } => (o \o "/install") \in dirs
                     /\ \A i \in DOMAIN trace :
                          /\ trace[i].cmd = "setup" =>
                               SubSeq(trace[i].args, Len(trace[i].args) - 2, Len(trace[i].args) - 1)
                                 = << "--prefix", o \o "/install" >>
                          /\ trace[i].cmd \in { "build", "install" } =>
                               trace[i].args = << trace[i].cmd, "-C", o \o "/build" >>

\* Neither an explicit path nor OUT_DIR: the build panicked at once.
C10_Witness ==
    /\ InBuild
    /\ Unwrap(self).out_path = None
    /\ env[NameOUT_DIR] = None
    /\ pc = "panicked"
    /\ trace = << >>

\* The build returned the error of a failed create_dir_all: an io error,
\* while every subprocess it had spawned was launched.
DirCreationFailed ==
    /\ Returned
    /\ result = FromIoError
    /\ \A i \in DOMAIN trace : trace[i].status.launched

\* C11: a failure to create the build directory or the install directory
\* ends the build before any subprocess has been spawned: in no run was a
\* tool subprocess spawned and a directory creation failed afterwards.
C11_DirFailureBeforeAnySpawn ==
    DirCreationFailed => trace = << >>

\* The positions of trace that hold a version query: a run of `--version`.
VersionQueries == { i \in DOMAIN trace : trace[i].args = << "--version" >> }

\* C12: the --version subprocess is spawned exactly once per Config, by
\* find_system_meson: a Config that exists has had one, and neither a setter
\* nor a run of build, successful or not, spawns another.
C12_VersionQueriedOnce ==
    /\ (IsSome(cfg) \/ InBuild) => queries = 1
    /\ InBuild => VersionQueries = {}
    /\ VersionQueries # {} =>
         /\ VersionQueries = { 1 }
         /\ Len(trace) = 1
         /\ pc = "idle"
         /\ optCalls = << >>

\* A setter and then a whole successful build, and still the one query.
C12_Witness ==
    /\ Returned
    /\ result = Ok(Unit)
    /\ optCalls # << >>
    /\ Len(trace) = 3
    /\ VersionQueries = {}
    /\ queries = 1

\* The profile that the setup run was given: the explicit one, or the one
\* PROFILE stands for.
GivenProfile ==
    IF Unwrap(self).profile # None THEN Unwrap(self).profile[1]
    ELSE IF env[NamePROFILE] = Some(<< "d", "e", "b", "u", "g" >>) THEN "debug"
    ELSE "release"

\* C13: the arguments of the setup subprocess are, in this order: "setup";
\* "--buildtype" <profile> exactly when the profile is not empty (an empty
\* one leaves the flag out and prints the informational line); the -D flags;
\* "--native-file" <path> exactly when a native file was set; "--cross-file"
\* <path> exactly when a cross file was set; "--prefix" <out>/install; and
\* the source directory last.
C13_SetupArgumentOrder ==
    (InBuild /\ SetupSpawned) =>
        LET a  == SetupRun.args
            c  == Unwrap(self)
            nP == IF GivenProfile # "" THEN 2 ELSE 0
            nD == Cardinality(DOMAIN c.options)
            nN == IF c.native_file # None THEN 2 ELSE 0
            nC == IF c.cross_file # None THEN 2 ELSE 0
            info == << "cargo:info=profile is empty, ignoring profile option." >>
        IN  /\ Len(a) = 1 + nP + nD + nN + nC + 3
            /\ a[1] = "setup"
            /\ GivenProfile # "" =>
                 /\ a[2] = "--buildtype"
                 /\ a[3] = GivenProfile
                 /\ info \notin Range(diag)
            /\ GivenProfile = "" =>
                 /\ "--buildtype" \notin Range(a)
                 /\ info \in Range(diag)
            /\ { a[i] : i \in (2 + nP) .. (1 + nP + nD) }
                  = { "-D" \o k \o "=" \o c.options[k] : k \in DOMAIN c.options }
            /\ IF c.native_file # None
               THEN /\ a[2 + nP + nD] = "--native-file"
                    /\ a[3 + nP + nD] = c.native_file[1]
               ELSE "--native-file" \notin Range(a)
            /\ IF c.cross_file # None
               THEN /\ a[2 + nP + nD + nN] = "--cross-file"
                    /\ a[3 + nP + nD + nN] = c.cross_file[1]
               ELSE "--cross-file" \notin Range(a)
            /\ a[Len(a) - 2] = "--prefix"
            /\ a[Len(a) - 1] = Unwrap(out) \o "/install"
            /\ a[Len(a)] = Unwrap(src)

\* Setup was spawned for a Config with a native and a cross file.
C13_Witness ==
    /\ InBuild
    /\ SetupSpawned
    /\ Unwrap(self).native_file # None
    /\ Unwrap(self).cross_file # None

\* Profile resolution has been reached in this run: setup was spawned with
\* its outcome, or the run panicked in it.
ProfileResolutionDone ==
    /\ InBuild
    /\ \/ SetupSpawned
       \/ result.kind = "panic" /\ result.val # Some(PanicOutDir)

\* A cargo:warning line about PROFILE was printed.
ProfileWarned == \E i \in DOMAIN diag : diag[i][1] = "cargo:warning=PROFILE is unknown. Using release as default."

\* C14: profile resolution returns the explicitly set profile verbatim,
\* whatever PROFILE is; with none set it returns "debug" for PROFILE=debug,
\* "release" for PROFILE=release, and for every other value of PROFILE it
\* prints a warning and returns "release".
C14_ProfileResolution ==
    ProfileResolutionDone =>
        LET c == Unwrap(self)
        IN  /\ c.profile # None =>
                 /\ SetupSpawned
                 /\ ~ProfileWarned
                 /\ c.profile[1] # "" =>
                      SubSeq(SetupRun.args, 2, 3) = << "--buildtype", c.profile[1] >>
                 /\ c.profile[1] = "" => "--buildtype" \notin Range(SetupRun.args)
            /\ (c.profile = None /\ env[NamePROFILE] # None) =>
                 /\ SetupSpawned
                 /\ SubSeq(SetupRun.args, 2, 3) =
                      << "--buildtype",
                         IF env[NamePROFILE] = Some(<< "d", "e", "b", "u", "g" >>) THEN "debug"
                         ELSE "release" >>
                 /\ ProfileWarned <=>
                      env[NamePROFILE] \notin { Some(<< "d", "e", "b", "u", "g" >>),
                                                Some(<< "r", "e", "l", "e", "a", "s", "e" >>) }

\* The build subprocess of this run has been spawned, or is about to be.
AtOrPastBuildSpawn == InBuild /\ (pc \in { "compile", "install" } \/ "build" \in Range(Cmds))

\* C15: whenever the build subprocess is spawned, <out>/build and
\* <out>/install exist, whether configure ran or was skipped in that run; and
\* no step removes a directory: the set of directories only grows.
C15_DirsExistAndOnlyGrow ==
    /\ [](AtOrPastBuildSpawn =>
            { Unwrap(out), Unwrap(out) \o "/build", Unwrap(out) \o "/install" } \subseteq dirs)
    /\ [][dirs \subseteq dirs']_vars

\* Configure was skipped, and build made the install directory that was
\* missing before it spawned the build subprocess.
C15_Witness ==
    /\ InBuild
    /\ IsSome(out)
    /\ SentinelAtStart
    /\ "build" \in Range(Cmds)
    /\ (Unwrap(out) \o "/install") \notin Unwrap(start).dirs
    /\ (Unwrap(out) \o "/install") \in dirs

\* C16: build consumes the Config: once build has been invoked on it the
\* caller no longer holds it, so until a new Config is constructed no setter
\* and no second build is applied; the Config that build took stays as it
\* was, and every setter call on it came before the build.
C16_ConfigConsumedByBuild ==
    /\ [](InBuild => cfg = None)
    /\ [][InBuild =>
            /\ self' \in { self, None }
            /\ self' = self => (callsLeft' = callsLeft /\ optCalls' = optCalls)]_vars

\* The build has returned and the caller, with calls to spare, holds nothing.
C16_Witness ==
    /\ Returned
    /\ cfg = None
    /\ optCalls # << >>
    /\ callsLeft > 0

\* The positions of trace where subcommand cmd ran and exited with status 0.
CleanRuns(cmd) ==
    { i \in DOMAIN trace : trace[i].cmd = cmd /\ trace[i].status.launched
                                              /\ trace[i].status.code = << 0 >> }

\* C17: build returns success only if in that run the build and the install
\* subprocess were both spawned and both exited with status 0, and either
\* the setup subprocess was spawned and exited with status 0 or the sentinel
\* file existed when the run started.
C17_SuccessNeedsEveryStep ==
    (Returned /\ result.kind = "Ok") =>
        /\ CleanRuns("build") # {}
        /\ CleanRuns("install") # {}
        /\ \A i \in DOMAIN trace : trace[i].cmd \in { "build", "install" } =>
                                      i \in CleanRuns(trace[i].cmd)
        /\ CleanRuns("setup") # {} \/ SentinelAtStart

\* A successful run that had to configure first.
C17_Witness ==
    /\ Returned
    /\ result.kind = "Ok"
    /\ ~SentinelAtStart
    /\ CleanRuns("setup") = { 1 }
    /\ CleanRuns("build") = { 2 }
    /\ CleanRuns("install") = { 3 }

\* The fields of a Config that the setters write.
SetterFields == { "native_file", "cross_file", "out_path", "options", "profile" }

\* C18: the executable and the version of a Config are what construction
\* made them: no setter changes them, a setter changes its own field only,
\* build takes the Config as the caller left it, and every subprocess of
\* build runs that executable with the source directory as its working
\* directory, whatever MESON has become by then.
C18_ExecutableFixedAtConstruction ==
    /\ [](InBuild => \A i \in DOMAIN trace :
                        /\ trace[i].exe = Unwrap(self).meson_path
                        /\ trace[i].cwd = src)
    /\ [][(cfg = << >> /\ cfg' # << >>) => cfg'[1].meson_path = trace'[1].exe]_vars
    /\ [][(cfg # << >> /\ cfg' # << >>) =>
            /\ cfg'[1].meson_path = cfg[1].meson_path
            /\ cfg'[1].meson_version = cfg[1].meson_version
            /\ Cardinality({ f \in SetterFields : cfg'[1][f] # cfg[1][f] }) <= 1
            /\ optCalls' # optCalls =>
                 \A f \in SetterFields \ { "options" } : cfg'[1][f] = cfg[1][f]]_vars
    /\ [][(cfg # << >> /\ self = << >> /\ self' # << >>) => self' = cfg]_vars

\* MESON was changed after construction; build ran the executable of the Config.
C18_Witness ==
    /\ InBuild
    /\ env[NameMESON] = << "/late/meson" >>
    /\ Unwrap(self).meson_path = "meson"
    /\ \E i \in DOMAIN trace : trace[i].cmd = "build" /\ trace[i].exe = "meson"

\* C19: the profile is resolved only when configure runs: when the sentinel
\* file exists at the start of build, PROFILE is not read in that run, so
\* whatever the explicit profile and PROFILE are (absent and unrecognized
\* included) the run neither panics nor prints a profile diagnostic, spawns
\* no setup, and goes on to the build and install steps.
C19_ProfileUnreadWhenConfigured ==
    (InBuild /\ IsSome(out) /\ SentinelAtStart) =>
        /\ pc # "panicked"
        /\ result.kind # "panic"
        /\ diag = << >>
        /\ ~SetupSpawned
        /\ pc = "idle" => (result = FromIoError \/ "build" \in Range(Cmds))
        /\ (pc = "idle" /\ \A i \in DOMAIN trace : trace[i].status = Exited(0)) =>
               (result = FromIoError \/ Cmds = << "build", "install" >>)

\* No explicit profile and PROFILE absent or not debug/release, the sentinel
\* there: build and install ran and the run succeeded.
C19_Witness ==
    /\ Returned
    /\ SentinelAtStart
    /\ Unwrap(self).profile = None
    /\ env[NamePROFILE] \in { None, Some(<< "d", "e", "v" >>), Some(<< BadByte >>) }
    /\ Cmds = << "build", "install" >>
    /\ result.kind = "Ok"
    /\ diag = << >>

-----------------------------------------------------------------------------
(* Properties of the resolvers, checked under SpecResolve *)

\* The --version subprocess of the find_system_meson that ran last.
Queried == trace # << >> /\ trace[1].cmd = "--version"

\* d is the character of a per-target variable name that stands for the
\* character c of the target: upper case for a letter, "_" for "-".
NameCharOf(c, d) ==
    \/ c = "-" /\ d = "_"
    \/ \E k \in DOMAIN LowerCase : c = LowerCase[k] /\ d = UpperCase[k]
    \/ c # "-" /\ c \notin Range(LowerCase) /\ d = c

\* n is MESON_<TARGET upper-cased with '-' replaced by '_'>.
IsPerTargetName(n) ==
    /\ IsSome(env[NameTARGET])
    /\ Len(n) = Len(Unwrap(env[NameTARGET])) + 6
    /\ SubSeq(n, 1, 6) = << "M", "E", "S", "O", "N", "_" >>
    /\ \A i \in DOMAIN Unwrap(env[NameTARGET]) : NameCharOf(Unwrap(env[NameTARGET])[i], n[i + 6])

PerTargetSet == { n \in DOMAIN env : IsPerTargetName(n) /\ IsSome(env[n]) }

ExpectedExecutable ==
    IF PerTargetSet # {} THEN Unwrap(env[CHOOSE n \in PerTargetSet : TRUE])
    ELSE IF IsSome(env[NameMESON]) THEN Unwrap(env[NameMESON])
    ELSE "meson"

TargetX86 == << "x", "8", "6", "_", "6", "4", "-", "u", "n", "k", "n", "o", "w", "n", "-", "l", "i", "n", "u", "x", "-", "g", "n", "u" >>

\* C5: the executable that find_system_meson runs and stores is the value of
\* the per-target variable if TARGET and that variable are set, otherwise the
\* value of MESON if it is set, otherwise "meson"; for the target
\* x86_64-unknown-linux-gnu the variable MESON_X86_64_UNKNOWN_LINUX_GNU wins
\* over MESON, and with none of them set the result is "meson".
C5_ExecutableResolution ==
    Queried =>
        /\ trace[1].exe = ExpectedExecutable
        /\ IsSome(cfg) => Unwrap(cfg).meson_path = ExpectedExecutable
        /\ (/\ env[NameTARGET] = Some(TargetX86)
            /\ SpecificNameList[1] \in DOMAIN env
            /\ IsSome(env[NameMESON]))
           => trace[1].exe = SpecificValue(SpecificNameList[1])
        /\ (/\ env[NameTARGET] = None
            /\ env[NameMESON] = None
            /\ DOMAIN env = { NameTARGET, NameMESON, NameOUT_DIR, NamePROFILE })
           => trace[1].exe = "meson"

\* Both overrides are set for x86_64-unknown-linux-gnu; the per-target one won.
C5_Witness ==
    /\ Queried
    /\ env[NameTARGET] = Some(TargetX86)
    /\ IsSome(env[NameMESON])
    /\ PerTargetSet # {}
    /\ trace[1].exe = "/cross/x86_64/meson"

NotAVersion == << "n", "o", "t", "-", "a", "-", "v", "e", "r", "s", "i", "o", "n" >>

\* C8: the outcome of the version resolver is, in this order: a failure to
\* spawn gives ProcessLaunchError; a non-zero exit gives
\* MesonExitedUnsuccessfully(code) and a signal MesonExitedBySignal, whatever
\* was printed; output that is not UTF-8 gives InvalidUtf8; trimmed text that
\* is not a semantic version gives VersionParseError; otherwise the Config
\* holds the parsed version.  A failure leaves no Config.
C8_VersionResolverOutcome ==
    Queried =>
        LET st == trace[1].status
        IN  /\ ~st.launched => result = Err("ProcessLaunchError", None)
            /\ (st.launched /\ IsSome(st.code) /\ st.code # Some(0))
                  => result = Err("MesonExitedUnsuccessfully", st.code)
            /\ (st.launched /\ st.code = None) => result = Err("MesonExitedBySignal", None)
            /\ (st = Exited(0) /\ BadByte \in Range(banner)) => result = Err("InvalidUtf8", None)
            /\ (st = Exited(0) /\ BadByte \notin Range(banner) /\ VersionParse(trim(banner)) = None)
                  => result = Err("VersionParseError", None)
            /\ (st = Exited(0) /\ banner = NotAVersion) => result = Err("VersionParseError", None)
            /\ (st = Exited(0) /\ BadByte \notin Range(banner) /\ VersionParse(trim(banner)) # None)
                  => /\ result = Ok(Unit)
                     /\ cfg = Some(NewConfig(trace[1].exe, Unwrap(VersionParse(trim(banner)))))
            /\ result # Ok(Unit) => cfg = None

\* The tool printed "not-a-version" and exited 0.
C8_Witness ==
    /\ Queried
    /\ banner = NotAVersion
    /\ trace[1].status = Exited(0)
    /\ result = Err("VersionParseError", None)
    /\ cfg = None

====
